---- MODULE Spec2Model ----
(***************************************************************************)
(* Model of the Handraw editor binding (debounced persistence of a canvas  *)
(* to canvasIndexeddbStorage, lazy hydration on file.id) and of the        *)
(* LocalStorageService settings wrapper.                                   *)
(*                                                                         *)
(* Strings whose characters matter (the values kept in localStorage) are   *)
(* sequences of one-character strings; the canvas contents are TLA+        *)
(* strings built by JSON_stringify.                                        *)
(***************************************************************************)
EXTENDS Integers, Sequences, FiniteSets, TLC

(***************************************************************************)
(* Bounds of the model.                                                    *)
(***************************************************************************)
\* number of change events Revedraw emits in a run
MaxEdits == 2
\* number of times the parent changes the file prop in a run
MaxSwitches == 1
\* granularity of the clock, in milliseconds
TickMs == 100
\* number of LocalStorageService calls in a run
MaxCalls == 3
\* number of store calls that fail in a run
MaxFailures == 1

(***************************************************************************)
(* Values.                                                                 *)
(***************************************************************************)
\* the value of a useState without initial value, and of a missing record
Undefined == "<undefined>"

\* const DEFAULT_DATA_SOURCE = '{}'
DEFAULT_DATA_SOURCE == "{}"

\* useDebounceFn(onChangeFn, { wait: 200 })
wait == 200

\* no debounce timer is armed
NoTimer == -1

\* identifiers of the documents (RevenoteFile.id)
FileIds == {"d1", "d2"}

\* the document models Revedraw hands to onChange: lists of element numbers
CanvasData == {<<1>>, <<1, 2>>}

\* what the store may hold for a document before the component mounts
StoredBefore == {Undefined, "", "[7]"}

RECURSIVE JoinNumbers(_)
JoinNumbers(data) ==
    IF Len(data) = 0 THEN ""
    ELSE IF Len(data) = 1 THEN ToString(data[1])
    ELSE ToString(data[1]) \o "," \o JoinNumbers(Tail(data))

\* JSON.stringify of a list of numbers
JSON_stringify(data) == "[" \o JoinNumbers(data) \o "]"

\* JavaScript truthiness of a string | undefined
Truthy(s) == s # Undefined /\ s # ""

VARIABLES
    file,          \* file.id of the current props
    capturedId,    \* file.id in the closure of onChangeFn (useCallback, [])
    dataSource,    \* useState<string>()
    timer,         \* milliseconds left on the debounce timer, or NoTimer
    lastArgs,      \* << >> or <<data>>: arguments of the latest debounced call
    getReqs,       \* getCanvas calls in flight, per id
    putReqs,       \* addOrUpdateCanvas calls in flight (indices of writes)
    store,         \* canvasIndexeddbStorage: id -> content
    edits,         \* history: the change events so far
    writes,        \* history: the addOrUpdateCanvas calls issued so far
    pendingAtSwitch, \* history: edits that were pending when file.id switched
    switches,      \* history: number of switches of file.id
    uncaught,      \* number of unhandled promise rejections
    hydrated,      \* history: ids whose getCanvas call has resolved
    rejectedGets,  \* history: number of getCanvas calls that rejected
    rejectedPuts,  \* history: the addOrUpdateCanvas calls that rejected
    localStorage,  \* window.localStorage: key -> string | null
    promise,       \* the promise the latest loadOpenKeys call returned
    ret,           \* what the latest synchronous load accessor returned
    fontsAdded,    \* history: the names passed to addBoardCustomFont
    onlyAdds,      \* history: custom_fonts was written by addBoardCustomFont only
    savedOpenKeys, \* history: the list the latest saveOpenKeys call was given
    lastCall,      \* history: the latest LocalStorageService call
    lastArg,       \* history: the argument of the latest call
    prevStorage,   \* history: localStorage before the latest call
    lsCalls        \* history: number of LocalStorageService calls

hvars == <<file, capturedId, dataSource, timer, lastArgs, getReqs, putReqs,
           store, edits, writes, pendingAtSwitch, switches, uncaught,
           hydrated, rejectedGets, rejectedPuts>>

\* what only a failing store call and a completed read change
fvars == <<uncaught, hydrated, rejectedGets, rejectedPuts>>

lvars == <<localStorage, promise, ret, fontsAdded, onlyAdds, savedOpenKeys,
           lastCall, lastArg, prevStorage, lsCalls>>

vars == <<hvars, lvars>>

(***************************************************************************)
(* canvasIndexeddbStorage                                                  *)
(***************************************************************************)
\* getCanvas(id): the stored content, or undefined
getCanvas(id) == store[id]

\* addOrUpdateCanvas(id, str): upsert
addOrUpdateCanvas(id, str) == [store EXCEPT ![id] = str]

(***************************************************************************)
(* Handraw                                                                 *)
(***************************************************************************)
\* (mutation of OrDefault: setDataSource(data), the fallback forgotten)
OrDefaultWithoutFallback(data) == data

\* setDataSource(data || DEFAULT_DATA_SOURCE)
OrDefault(data) == IF Truthy(data) THEN data ELSE DEFAULT_DATA_SOURCE

\* return dataSource ? <Revedraw .../> : null
Rendered == Truthy(dataSource)

\* (mutation of onChangeFn: the hydrated dataSource is written back instead
\* of the document model of the change event)
onChangeFnWritesDataSource(data) == [id |-> capturedId, str |-> dataSource]

\* the call onChangeFn makes: addOrUpdateCanvas(file.id, JSON.stringify(data)),
\* file being the props of the render that created the callback
onChangeFn(data) == [id |-> capturedId, str |-> JSON_stringify(data)]

\* (mutation of Debounced: a call made while the timer is armed is dropped,
\* so the arguments of the first call of a burst are the ones flushed)
DebouncedKeepsFirst(args, data) == IF args = <<>> THEN <<data>> ELSE args

\* the debounced function keeps the arguments of its latest call
Debounced(args, data) == <<data>>

\* how the latest change event relates to the one before it
Gap ==
    IF timer = NoTimer THEN (IF edits = <<>> THEN "first" ELSE "gt")
    ELSE IF timer > 0 THEN "lt" ELSE "eq"

HandrawInit ==
    /\ file \in FileIds
    /\ capturedId = file
    /\ dataSource = Undefined
    /\ timer = NoTimer
    /\ lastArgs = <<>>
    /\ getReqs = [d \in FileIds |-> IF d = file THEN 1 ELSE 0]
    /\ putReqs = {}
    /\ store \in [FileIds -> StoredBefore]
    /\ edits = <<>>
    /\ writes = <<>>
    /\ pendingAtSwitch = {}
    /\ switches = 0
    /\ uncaught = 0
    /\ hydrated = {}
    /\ rejectedGets = 0
    /\ rejectedPuts = {}

\* the parent renders Handraw with another file: useEffect(..., [file.id])
SwitchFile(d) ==
    /\ d # file
    /\ switches < MaxSwitches
    /\ file' = d
    /\ getReqs' = [getReqs EXCEPT ![d] = @ + 1]
    /\ switches' = switches + 1
    /\ pendingAtSwitch' = IF timer # NoTimer THEN pendingAtSwitch \cup {Len(edits)}
                    ELSE pendingAtSwitch
    /\ UNCHANGED <<lvars, fvars, capturedId, dataSource, timer, lastArgs, putReqs, store,
                   edits, writes>>

\* getDataSource resumes after await getCanvas(id)
getDataSource(id) ==
    /\ getReqs[id] > 0
    /\ getReqs' = [getReqs EXCEPT ![id] = @ - 1]
    /\ dataSource' = OrDefault(getCanvas(id))
    /\ hydrated' = hydrated \cup {id}
    /\ UNCHANGED <<lvars, uncaught, rejectedGets, rejectedPuts, file, capturedId, timer, lastArgs, putReqs, store, edits,
                   writes, pendingAtSwitch, switches>>

\* Revedraw calls onChange = onChangeDebounceFn
onChangeDebounceFn(data) ==
    /\ Rendered
    /\ Len(edits) < MaxEdits
    /\ lastArgs' = Debounced(lastArgs, data)
    /\ timer' = wait
    /\ edits' = Append(edits, [doc |-> file, data |-> data, gap |-> Gap])
    /\ UNCHANGED <<lvars, fvars, file, capturedId, dataSource, getReqs, putReqs, store,
                   writes, pendingAtSwitch, switches>>

\* time passes while the debounce timer is armed
Tick ==
    /\ timer > 0
    /\ timer' = IF timer > TickMs THEN timer - TickMs ELSE 0
    /\ UNCHANGED <<lvars, fvars, file, capturedId, dataSource, lastArgs, getReqs, putReqs,
                   store, edits, writes, pendingAtSwitch, switches>>

\* the debounce timer expires: onChangeFn runs up to its await
TimerExpired ==
    /\ timer = 0
    /\ timer' = NoTimer
    /\ lastArgs' = <<>>
    /\ writes' = Append(writes, [id |-> onChangeFn(lastArgs[1]).id,
                                 str |-> onChangeFn(lastArgs[1]).str,
                                 edit |-> Len(edits)])
    /\ putReqs' = putReqs \cup {Len(writes) + 1}
    /\ UNCHANGED <<lvars, fvars, file, capturedId, dataSource, getReqs, store, edits,
                   pendingAtSwitch, switches>>

\* an addOrUpdateCanvas call completes
PutCompletes(w) ==
    /\ w \in putReqs
    /\ putReqs' = putReqs \ {w}
    /\ store' = addOrUpdateCanvas(writes[w].id, writes[w].str)
    /\ UNCHANGED <<lvars, fvars, file, capturedId, dataSource, timer, lastArgs, getReqs,
                   edits, writes, pendingAtSwitch, switches>>

\* getDataSource when await getCanvas(id) rejects: there is no try/catch, so
\* setDataSource is not reached and dataSource is what it was
getDataSourceRejected(ds) == ds

\* (mutation of onChangeFnRejected: the rejected call is issued again)
onChangeFnRetries(ws, w) == Append(ws, ws[w])

\* onChangeFn when await addOrUpdateCanvas rejects: there is no try/catch and
\* no retry, so the calls issued are what they were
onChangeFnRejected(ws, w) == ws

\* fewer than MaxFailures store calls have failed
MayFail == rejectedGets + Cardinality(rejectedPuts) < MaxFailures

\* a getCanvas call rejects (store unavailable, invalid key)
getCanvasRejects(id) ==
    /\ MayFail
    /\ getReqs[id] > 0
    /\ getReqs' = [getReqs EXCEPT ![id] = @ - 1]
    /\ rejectedGets' = rejectedGets + 1
    /\ dataSource' = getDataSourceRejected(dataSource)
    /\ uncaught' = uncaught + 1
    /\ UNCHANGED <<lvars, hydrated, rejectedPuts, file, capturedId, timer,
                   lastArgs, putReqs, store, edits, writes, pendingAtSwitch,
                   switches>>

\* an addOrUpdateCanvas call rejects (store unavailable, invalid key)
addOrUpdateCanvasRejects(w) ==
    /\ MayFail
    /\ w \in putReqs
    /\ rejectedPuts' = rejectedPuts \cup {w}
    /\ writes' = onChangeFnRejected(writes, w)
    /\ putReqs' = (putReqs \ {w}) \cup ((Len(writes) + 1)..Len(writes'))
    /\ uncaught' = uncaught + 1
    /\ UNCHANGED <<lvars, hydrated, rejectedGets, file, capturedId, dataSource,
                   timer, lastArgs, getReqs, store, edits, pendingAtSwitch,
                   switches>>

(***************************************************************************)
(* Strings of localStorage: sequences of one-character strings             *)
(***************************************************************************)
\* null and undefined: no sequence of characters equals them
Null == <<"null">>
Undef == <<"undefined">>

\* no string[]: no list of strings equals it
NoList == <<Null>>

\* JavaScript falsiness of a string | null | undefined
Falsy(x) == x \in {Null, Undef, <<>>}

\* String.prototype.split(sep), sep one character
RECURSIVE Split(_, _)
Split(s, sep) ==
    IF \A i \in 1..Len(s) : s[i] # sep THEN <<s>>
    ELSE LET k == CHOOSE i \in 1..Len(s) :
                      s[i] = sep /\ \A j \in 1..(i - 1) : s[j] # sep
         IN  <<SubSeq(s, 1, k - 1)>> \o Split(SubSeq(s, k + 1, Len(s)), sep)

\* Array.prototype.join(sep)
RECURSIVE Join(_, _)
Join(arr, sep) ==
    IF arr = <<>> THEN <<>>
    ELSE IF Len(arr) = 1 THEN arr[1]
    ELSE arr[1] \o <<sep>> \o Join(Tail(arr), sep)

\* Array.prototype.includes
Includes(arr, x) == \E i \in 1..Len(arr) : arr[i] = x

\* JSON.stringify of a string[] whose strings need no escaping
JSON_stringifyKeys(keys) ==
    <<"[">> \o Join([i \in 1..Len(keys) |-> <<"\"">> \o keys[i] \o <<"\"">>],
                    ",") \o <<"]">>

\* JSON.parse of the output of JSON_stringifyKeys
JSON_parseKeys(s) ==
    LET inner == SubSeq(s, 2, Len(s) - 1)
        parts == Split(inner, ",")
    IN  IF inner = <<>> THEN <<>>
        ELSE [i \in 1..Len(parts) |-> SubSeq(parts[i], 2, Len(parts[i]) - 1)]

(***************************************************************************)
(* LocalStorageService                                                     *)
(***************************************************************************)
LOCALSTORAGE_MENU_OPEN_KEYS == "menu_open_keys"
LOCALSTORAGE_CURRENT_FILE_ID == "current_file_id"
LOCALSTORAGE_BOARD_CUSTOM_FONTS == "custom_fonts"
LOCALSTORAGE_LANG_CODE == "lang_code"
LOCALSTORAGE_BOARD_CUSTOM_FONT_SWITCH == "board_custom_font_switch"

StorageKeys ==
    {LOCALSTORAGE_MENU_OPEN_KEYS, LOCALSTORAGE_CURRENT_FILE_ID,
     LOCALSTORAGE_BOARD_CUSTOM_FONTS, LOCALSTORAGE_LANG_CODE,
     LOCALSTORAGE_BOARD_CUSTOM_FONT_SWITCH}

\* the arguments the accessors are called with
OpenKeysArgs == {<<>>, <<<<"a">>>>, <<<<"a">>, <<"b">>>>}
FileIdArgs == {Undef, Null, <<>>, <<"f">>}
FontNameArgs == {<<>>, <<"A">>, <<"B">>, <<"A", ",", "B">>}
SaveFontArgs == {Null, <<>>, <<"B">>, <<"A", ",", "B">>}
LangCodeArgs == {<<"e", "n">>, <<"z", "h">>}

\* localStorage.getItem / setItem
getItem(key) == localStorage[key]

\* (mutation of setItem: the storage is cleared before the key is set)
setItemAfterClear(key, value) ==
    [k \in DOMAIN localStorage |-> IF k = key THEN value ELSE Null]

setItem(key, value) == [localStorage EXCEPT ![key] = value]

\* new Promise(executor): settled only if the executor calls resolve
NewPromise(resolveCalled, value) ==
    IF resolveCalled THEN [state |-> "fulfilled", value |-> value]
    ELSE [state |-> "pending", value |-> NoList]

\* what the executor of loadOpenKeys computes and returns
OpenKeysOf(localStr) ==
    IF Falsy(localStr) THEN <<>> ELSE JSON_parseKeys(localStr)

\* the custom_fonts value addBoardCustomFont leaves behind
AddedCustomFonts(customFonts, fontFamilyName) ==
    IF customFonts = Null THEN fontFamilyName
    ELSE LET arr == Split(customFonts, ",")
         IN  IF Includes(arr, fontFamilyName) THEN customFonts
             ELSE Join(Append(arr, fontFamilyName), ",")

\* value + '' for a boolean
BooleanToString(value) ==
    IF value THEN <<"t", "r", "u", "e">> ELSE <<"f", "a", "l", "s", "e">>

LocalStorageInit ==
    /\ localStorage = [k \in StorageKeys |-> Null]
    /\ promise = [state |-> "none", value |-> NoList]
    /\ ret = Undef
    /\ fontsAdded = {}
    /\ onlyAdds = TRUE
    /\ savedOpenKeys = NoList
    /\ lastCall = "none"
    /\ lastArg = Undef
    /\ prevStorage = localStorage
    /\ lsCalls = 0

\* a call of an accessor: the part every accessor shares
Called(name, arg) ==
    /\ lsCalls < MaxCalls
    /\ lsCalls' = lsCalls + 1
    /\ lastCall' = name
    /\ lastArg' = arg
    /\ prevStorage' = localStorage
    /\ UNCHANGED hvars

\* the executor takes no resolve parameter: its return value is dropped
loadOpenKeys ==
    /\ Called("loadOpenKeys", Undef)
    /\ promise' = NewPromise(FALSE,
                             OpenKeysOf(getItem(LOCALSTORAGE_MENU_OPEN_KEYS)))
    /\ UNCHANGED <<localStorage, ret, fontsAdded, onlyAdds, savedOpenKeys>>

saveOpenKeys(openKeys) ==
    /\ Called("saveOpenKeys", openKeys)
    /\ localStorage' = setItem(LOCALSTORAGE_MENU_OPEN_KEYS,
                               JSON_stringifyKeys(openKeys))
    /\ savedOpenKeys' = openKeys
    /\ UNCHANGED <<promise, ret, fontsAdded, onlyAdds>>

saveCurrentFileId(fileId) ==
    /\ Called("saveCurrentFileId", fileId)
    /\ localStorage' = setItem(LOCALSTORAGE_CURRENT_FILE_ID,
                               IF Falsy(fileId) THEN <<>> ELSE fileId)
    /\ UNCHANGED <<promise, ret, fontsAdded, onlyAdds, savedOpenKeys>>

loadCurrentFileId ==
    /\ Called("loadCurrentFileId", Undef)
    /\ ret' = getItem(LOCALSTORAGE_CURRENT_FILE_ID)
    /\ UNCHANGED <<localStorage, promise, fontsAdded, onlyAdds, savedOpenKeys>>

loadBoardCustomFont ==
    /\ Called("loadBoardCustomFont", Undef)
    /\ ret' = getItem(LOCALSTORAGE_BOARD_CUSTOM_FONTS)
    /\ UNCHANGED <<localStorage, promise, fontsAdded, onlyAdds, savedOpenKeys>>

\* fontName && localStorage.setItem(...)
saveBoardCustomFont(fontName) ==
    /\ Called("saveBoardCustomFont", fontName)
    /\ localStorage' = IF Falsy(fontName) THEN localStorage
                       ELSE setItem(LOCALSTORAGE_BOARD_CUSTOM_FONTS, fontName)
    /\ onlyAdds' = (onlyAdds /\ Falsy(fontName))
    /\ UNCHANGED <<promise, ret, fontsAdded, savedOpenKeys>>

addBoardCustomFont(fontFamilyName) ==
    /\ Called("addBoardCustomFont", fontFamilyName)
    /\ localStorage' =
           setItem(LOCALSTORAGE_BOARD_CUSTOM_FONTS,
                   AddedCustomFonts(getItem(LOCALSTORAGE_BOARD_CUSTOM_FONTS),
                                    fontFamilyName))
    /\ fontsAdded' = fontsAdded \cup {fontFamilyName}
    /\ UNCHANGED <<promise, ret, onlyAdds, savedOpenKeys>>

saveLangCode(langCode) ==
    /\ Called("saveLangCode", langCode)
    /\ localStorage' = setItem(LOCALSTORAGE_LANG_CODE, langCode)
    /\ UNCHANGED <<promise, ret, fontsAdded, onlyAdds, savedOpenKeys>>

loadLangCode ==
    /\ Called("loadLangCode", Undef)
    /\ ret' = getItem(LOCALSTORAGE_LANG_CODE)
    /\ UNCHANGED <<localStorage, promise, fontsAdded, onlyAdds, savedOpenKeys>>

loadBoardCustomFontSwitch ==
    /\ Called("loadBoardCustomFontSwitch", Undef)
    /\ ret' = getItem(LOCALSTORAGE_BOARD_CUSTOM_FONT_SWITCH)
    /\ UNCHANGED <<localStorage, promise, fontsAdded, onlyAdds, savedOpenKeys>>

saveBoardCustomFontSwitch(value) ==
    /\ Called("saveBoardCustomFontSwitch", value)
    /\ localStorage' = setItem(LOCALSTORAGE_BOARD_CUSTOM_FONT_SWITCH,
                               BooleanToString(value))
    /\ UNCHANGED <<promise, ret, fontsAdded, onlyAdds, savedOpenKeys>>

(***************************************************************************)
(* Specifications                                                          *)
(***************************************************************************)
\* Handraw mounted over a fresh localStorage
Init == HandrawInit /\ LocalStorageInit

Next ==
    \/ \E d \in FileIds : SwitchFile(d)
    \/ \E d \in FileIds : getDataSource(d)
    \/ \E data \in CanvasData : onChangeDebounceFn(data)
    \/ Tick
    \/ TimerExpired
    \/ \E w \in 1..MaxEdits : PutCompletes(w)
    \/ \E d \in FileIds : getCanvasRejects(d)
    \/ \E w \in 1..MaxEdits : addOrUpdateCanvasRejects(w)

Spec == Init /\ [][Next]_vars

\* the settings service alone, over a fresh localStorage
InitLS ==
    /\ HandrawInit
    /\ file = "d1"
    /\ store = [d \in FileIds |-> Undefined]
    /\ LocalStorageInit

NextLS ==
    \/ loadOpenKeys
    \/ \E openKeys \in OpenKeysArgs : saveOpenKeys(openKeys)
    \/ \E fileId \in FileIdArgs : saveCurrentFileId(fileId)
    \/ loadCurrentFileId
    \/ loadBoardCustomFont
    \/ \E fontName \in SaveFontArgs : saveBoardCustomFont(fontName)
    \/ \E fontFamilyName \in FontNameArgs : addBoardCustomFont(fontFamilyName)
    \/ \E langCode \in LangCodeArgs : saveLangCode(langCode)
    \/ loadLangCode
    \/ loadBoardCustomFontSwitch
    \/ \E value \in BOOLEAN : saveBoardCustomFontSwitch(value)

SpecLS == InitLS /\ [][NextLS]_vars

(***************************************************************************)
(* Properties of Handraw                                                   *)
(***************************************************************************)
\* every change event but the first came less than `wait` after the one before
OneBurst == edits # <<>> /\ \A i \in 2..Len(edits) : edits[i].gap = "lt"

\* every change event came after the timer of the one before it had fired
AllSpaced == edits # <<>> /\ \A i \in 2..Len(edits) : edits[i].gap = "gt"

\* C1: a burst of change events, each less than the 200ms window after the
\* one before, issues no addOrUpdateCanvas call while the timer is armed and
\* exactly one once it has fired, carrying JSON.stringify of the last event's
\* data; no earlier event of the burst is written.
C1_BurstWritesLast ==
    OneBurst =>
        IF timer # NoTimer THEN writes = <<>>
        ELSE /\ Len(writes) = 1
             /\ writes[1].str = JSON_stringify(edits[Len(edits)].data)
             /\ writes[1].edit = Len(edits)

\* a burst of two events with different data has been flushed
C1_Witness ==
    /\ OneBurst
    /\ Len(edits) >= 2
    /\ edits[1].data # edits[Len(edits)].data
    /\ timer = NoTimer
    /\ Len(writes) = 1

\* C2: a change event that was pending (timer armed) when file.id switched is
\* never written: no addOrUpdateCanvas call is issued for it after the switch.
C2_NoWriteAfterSwitch ==
    \A i \in 1..Len(writes) : writes[i].edit \notin pendingAtSwitch

\* nothing is left to happen unless Revedraw or the parent act again
Quiescent ==
    /\ timer = NoTimer
    /\ putReqs = {}
    /\ \A d \in FileIds : getReqs[d] = 0

\* the change events made while d was the active document
EditsOf(d) == {i \in 1..Len(edits) : edits[i].doc = d}

\* the last element of a non-empty set of numbers
Max(S) == CHOOSE x \in S : \A y \in S : y <= x

\* C3: once the change events on the active document have stopped and the
\* timer and every store call have run to completion (which fair timer expiry
\* and fair completion of the store calls bring about) without a write having
\* failed, the record under the active file.id is JSON.stringify of the last
\* change made to that document.
C3_LastEditPersisted ==
    (Quiescent /\ rejectedPuts = {} /\ EditsOf(file) # {}) =>
        store[file] = JSON_stringify(edits[Max(EditsOf(file))].data)

\* C4: while getCanvas(file.id) for the active document is pending, Handraw
\* renders nothing (on the first mount and after every switch of file.id).
C4_NothingWhilePending == getReqs[file] > 0 => ~Rendered

\* C5: when getCanvas(d) completes, dataSource becomes the stored content of
\* d if that is a non-empty string and '{}' otherwise; it is never left
\* undefined.
C5_HydrationResult ==
    [][\A d \in FileIds :
          (getReqs'[d] < getReqs[d] /\ rejectedGets' = rejectedGets) =>
              /\ dataSource' # Undefined
              /\ dataSource' = IF store[d] \in {Undefined, ""} THEN "{}"
                               ELSE store[d]]_vars

\* the first read completed for a document without a record
C5_Witness ==
    /\ switches = 0
    /\ getReqs[file] = 0
    /\ store[file] = Undefined
    /\ dataSource = "{}"

\* the addOrUpdateCanvas calls issued for d
WritesOf(d) == {i \in 1..Len(writes) : writes[i].id = d}

\* C6: once two or more addOrUpdateCanvas calls for d, issued in order, have
\* all completed (none failed), the record for d is the content of the last
\* one issued.
C6_LastWriteWins ==
    \A d \in FileIds :
        (Cardinality(WritesOf(d)) >= 2 /\ putReqs = {} /\ rejectedPuts = {}) =>
            store[d] = writes[Max(WritesOf(d))].str

\* C7: when every change event comes after the timer of the one before has
\* fired (more than the 200ms window later), there is one addOrUpdateCanvas
\* call per event, in order, the i-th carrying JSON.stringify of the i-th data
\* (the call for the latest event still to come while its timer is armed).
C7_OneWritePerEdit ==
    AllSpaced =>
        LET n == IF timer = NoTimer THEN Len(edits) ELSE Len(edits) - 1
        IN  /\ Len(writes) = n
            /\ \A i \in 1..n :
                  /\ writes[i].str = JSON_stringify(edits[i].data)
                  /\ writes[i].edit = i

\* two spaced events with different data have both been flushed
C7_Witness ==
    /\ AllSpaced
    /\ Len(edits) >= 2
    /\ edits[1].data # edits[2].data
    /\ timer = NoTimer
    /\ Len(writes) = Len(edits)

\* C8: at most one addOrUpdateCanvas call per document identifier is in
\* flight at any time.
C8_OneWriteInFlight ==
    \A d \in FileIds : Cardinality({w \in putReqs : writes[w].id = d}) <= 1

(***************************************************************************)
(* Properties of LocalStorageService                                       *)
(***************************************************************************)
\* the entries of the comma-joined custom font list
Entries(customFonts) ==
    IF customFonts = Null THEN <<>> ELSE Split(customFonts, ",")

\* how many entries of arr are x
Count(arr, x) == Cardinality({i \in 1..Len(arr) : arr[i] = x})

\* C9: starting from an absent list, after any sequence of addBoardCustomFont
\* calls the stored list has every added name as an entry exactly once and
\* has no other entry.
C9_IdempotentUnion ==
    onlyAdds =>
        LET arr == Entries(getItem(LOCALSTORAGE_BOARD_CUSTOM_FONTS))
        IN  /\ \A name \in fontsAdded : Count(arr, name) = 1
            /\ \A i \in 1..Len(arr) : arr[i] \in fontsAdded

\* C10: the promise loadOpenKeys returns is resolved, with the list the
\* latest saveOpenKeys call stored, or with the empty list if there was none.
C10_LoadOpenKeysResolves ==
    lastCall = "loadOpenKeys" =>
        /\ promise.state = "fulfilled"
        /\ promise.value = IF savedOpenKeys = NoList THEN <<>> ELSE savedOpenKeys

\* the storage key an accessor is dedicated to
KeyOf(call) ==
    IF call \in {"loadOpenKeys", "saveOpenKeys"}
        THEN LOCALSTORAGE_MENU_OPEN_KEYS
    ELSE IF call \in {"loadCurrentFileId", "saveCurrentFileId"}
        THEN LOCALSTORAGE_CURRENT_FILE_ID
    ELSE IF call \in {"loadBoardCustomFont", "saveBoardCustomFont",
                      "addBoardCustomFont"}
        THEN LOCALSTORAGE_BOARD_CUSTOM_FONTS
    ELSE IF call \in {"loadLangCode", "saveLangCode"}
        THEN LOCALSTORAGE_LANG_CODE
    ELSE IF call \in {"loadBoardCustomFontSwitch", "saveBoardCustomFontSwitch"}
        THEN LOCALSTORAGE_BOARD_CUSTOM_FONT_SWITCH
    ELSE "none"

SaveCalls ==
    {"saveOpenKeys", "saveCurrentFileId", "saveBoardCustomFont",
     "saveLangCode", "saveBoardCustomFontSwitch"}

SyncLoadCalls ==
    {"loadCurrentFileId", "loadBoardCustomFont", "loadLangCode",
     "loadBoardCustomFontSwitch"}

\* the value an unconditional overwrite stores for an argument: the string
\* itself, JSON for a list, the text of a boolean, '' for a missing file id
\* and the text 'null' that setItem makes of null
OverwriteValue(call, arg) ==
    IF call = "saveOpenKeys" THEN JSON_stringifyKeys(arg)
    ELSE IF call = "saveCurrentFileId"
        THEN (IF arg \in {Null, Undef} THEN <<>> ELSE arg)
    ELSE IF call = "saveBoardCustomFontSwitch" THEN BooleanToString(arg)
    ELSE IF arg = Null THEN <<"n", "u", "l", "l">>
    ELSE arg

\* C11: after every save accessor, whatever its argument and the prior value,
\* the value under its key is the one the argument alone determines, and the
\* matching load accessor returns the value under the key (loadOpenKeys, once
\* a list was saved, resolves to that list).
C11_SaveOverwrites ==
    /\ lastCall \in SaveCalls =>
           getItem(KeyOf(lastCall)) = OverwriteValue(lastCall, lastArg)
    /\ lastCall \in SyncLoadCalls => ret = getItem(KeyOf(lastCall))
    /\ (lastCall = "loadOpenKeys" /\ savedOpenKeys # NoList) =>
           /\ promise.state = "fulfilled"
           /\ promise.value = savedOpenKeys

\* C16: addBoardCustomFont(name) modifies no key if name is an entry of the
\* stored list; otherwise the entries of custom_fonts become the previous
\* entries, in their order, followed by name, and no other key is modified.
C16_AddTwoOutcomes ==
    lastCall = "addBoardCustomFont" =>
        LET old == Entries(prevStorage[LOCALSTORAGE_BOARD_CUSTOM_FONTS])
            new == Entries(getItem(LOCALSTORAGE_BOARD_CUSTOM_FONTS))
        IN  IF Includes(old, lastArg) THEN localStorage = prevStorage
            ELSE /\ new = Append(old, lastArg)
                 /\ \A k \in StorageKeys \ {LOCALSTORAGE_BOARD_CUSTOM_FONTS} :
                        getItem(k) = prevStorage[k]

\* C17: every accessor leaves the keys of the other settings unchanged, and
\* a load accessor changes no key at all.
C17_SettingsIndependent ==
    /\ \A k \in StorageKeys :
           k # KeyOf(lastCall) => getItem(k) = prevStorage[k]
    /\ lastCall \in SyncLoadCalls \cup {"loadOpenKeys"} =>
           localStorage = prevStorage

\* a save changed its own key while another setting was stored
C17_Witness ==
    /\ lastCall = "saveLangCode"
    /\ getItem(LOCALSTORAGE_LANG_CODE) # prevStorage[LOCALSTORAGE_LANG_CODE]
    /\ prevStorage[LOCALSTORAGE_BOARD_CUSTOM_FONTS] # Null
    /\ getItem(LOCALSTORAGE_BOARD_CUSTOM_FONTS) =
           prevStorage[LOCALSTORAGE_BOARD_CUSTOM_FONTS]

(***************************************************************************)
(* Further properties of Handraw                                           *)
(***************************************************************************)
\* C14: every addOrUpdateCanvas call is keyed by the document that was the
\* active one when the change event it writes was made.
C14_WriteKeyedByEditDoc ==
    \A i \in 1..Len(writes) : writes[i].id = edits[writes[i].edit].doc

\* what hydration from the record of d yields
HydratedFrom(d) == IF store[d] \in {Undefined, ""} THEN "{}" ELSE store[d]

\* C15: after a switch of file.id, once every getCanvas call has completed
\* (in whatever order, none having failed), dataSource is the stored content
\* of the active document, or '{}' if it has none; no write has touched the
\* store.
C15_HydrationRaceFree ==
    (/\ switches >= 1
     /\ writes = <<>>
     /\ rejectedGets = 0
     /\ \A d \in FileIds : getReqs[d] = 0) =>
        dataSource = HydratedFrom(file)

\* C12: when getCanvas(d) fails, the failure is caught (no unhandled
\* rejection) and dataSource becomes '{}'.
C12_FailedReadFallsBack ==
    [][rejectedGets' > rejectedGets =>
          /\ dataSource' = DEFAULT_DATA_SOURCE
          /\ uncaught' = uncaught]_vars

C18_NoWriteBeforeHydration ==
    /\ ~Rendered => (edits = <<>> /\ timer = NoTimer /\ writes = <<>>)
    /\ \A i \in 1..Len(writes) : writes[i].id \in hydrated

====
